---- MODULE Spec2Model ----
(***************************************************************************)
(* Model of the web-ocr backend: the batch extraction handler              *)
(* (POST /extract-text), the asset-URL builder, the protect middleware and *)
(* the server-sent-events gateway with its connection registry             *)
(* (GET /api/manage/tags/stream, broadcastNewTag).                         *)
(*                                                                         *)
(* Strings are sequences of one-character strings, so that trim, quote     *)
(* removal, the digit test and padding are computed, not assumed.          *)
(***************************************************************************)
EXTENDS Integers, Sequences, FiniteSets, TLC

\* ------------------------------------------------------------------ bounds
MaxFiles == 3
MaxConns == 2
MaxBroadcasts == 2
MaxTagLen == 3
MaxPairFiles == 2

\* --------------------------------------------------------------- constants
PadWidth == 12

None == "<none>"
\* null where a string is expected; no string the code builds is the same value
NullUrl == <<>>
Users == {"u1", "u2"}
AllKey == "all"

\* ------------------------------------------------------------ text helpers
Digits == {"0", "1", "2", "3", "4", "5", "6", "7", "8", "9"}
Quotes == {"\"", "'"}
Whitespace == {" "}

RECURSIVE TrimStart(_)
TrimStart(s) ==
    IF s # <<>> /\ Head(s) \in Whitespace THEN TrimStart(Tail(s)) ELSE s

RECURSIVE TrimEnd(_)
TrimEnd(s) ==
    IF s # <<>> /\ s[Len(s)] \in Whitespace
    THEN TrimEnd(SubSeq(s, 1, Len(s) - 1))
    ELSE s

\* String.prototype.trim
Trim(s) == TrimEnd(TrimStart(s))

\* potentialAssetTag.replace(/["']/g, '')
RemoveQuotes(s) == SelectSeq(s, LAMBDA ch : ch \notin Quotes)

\* /^\d+$/.test(s)
IsDigitString(s) == s # <<>> /\ \A i \in 1..Len(s) : s[i] \in Digits

DigitValue(ch) ==
    CASE ch = "0" -> 0 [] ch = "1" -> 1 [] ch = "2" -> 2 [] ch = "3" -> 3
      [] ch = "4" -> 4 [] ch = "5" -> 5 [] ch = "6" -> 6 [] ch = "7" -> 7
      [] ch = "8" -> 8 [] ch = "9" -> 9

DigitChar(d) ==
    CASE d = 0 -> "0" [] d = 1 -> "1" [] d = 2 -> "2" [] d = 3 -> "3"
      [] d = 4 -> "4" [] d = 5 -> "5" [] d = 6 -> "6" [] d = 7 -> "7"
      [] d = 8 -> "8" [] d = 9 -> "9"

\* A Number that holds a non-negative integer is the sequence of the decimal
\* digits of its exact value, most significant first, without leading zeros:
\* the values the builder meets do not fit the checker's integers.
\* A function on 1..n as the tuple of its values.
AsSeq(f) == f \o <<>>
ToDigits(s) == AsSeq([i \in 1..Len(s) |-> DigitValue(s[i])])
ToChars(d) == AsSeq([i \in 1..Len(d) |-> DigitChar(d[i])])
Zeros(n) == AsSeq([i \in 1..n |-> 0])

RECURSIVE Canon(_)
Canon(d) == IF Len(d) > 1 /\ d[1] = 0 THEN Canon(Tail(d)) ELSE d

\* a < b
Less(a, b) ==
    \/ Len(a) < Len(b)
    \/ /\ Len(a) = Len(b)
       /\ \E i \in 1..Len(a) :
             a[i] < b[i] /\ \A j \in 1..(i - 1) : a[j] = b[j]

IsOdd(d) == d[Len(d)] % 2 = 1

\* floor(d / 2): the digit before carries ten when it is odd
Halve(d) ==
    Canon(AsSeq([i \in 1..Len(d) |->
                    ((IF i = 1 THEN 0 ELSE d[i - 1] % 2) * 10 + d[i]) \div 2]))

\* 2 * d: the digit after carries one when it is five or more
Double(d) ==
    LET body == AsSeq([i \in 1..Len(d) |->
                    (2 * d[i] + (IF i < Len(d) /\ d[i + 1] >= 5 THEN 1 ELSE 0))
                        % 10])
    IN  IF d[1] >= 5 THEN <<1>> \o body ELSE body

\* d + 1
AddOne(d) ==
    LET nines == {i \in 1..Len(d) : \A j \in i..Len(d) : d[j] = 9}
        k == Len(d) - Cardinality(nines)
    IN  IF k = 0 THEN <<1>> \o Zeros(Len(d))
        ELSE AsSeq([i \in 1..Len(d) |->
                 IF i < k THEN d[i] ELSE IF i = k THEN d[i] + 1 ELSE 0])

RECURSIVE Times2(_, _)
Times2(d, e) == IF e = 0 THEN d ELSE Times2(Double(d), e - 1)

\* 2^53: below it every integer is a Number
TwoTo53 == <<9, 0, 0, 7, 1, 9, 9, 2, 5, 4, 7, 4, 0, 9, 9, 2>>

\* The Number nearest to the integer q * 2^e + (the bits shifted out), ties
\* to the even significand: half is the last bit shifted out, sticky tells
\* whether a bit shifted out before it was set.
RECURSIVE RoundToDouble(_, _, _, _)
RoundToDouble(q, e, half, sticky) ==
    IF Less(q, TwoTo53)
    THEN Times2(IF half /\ (sticky \/ IsOdd(q)) THEN AddOne(q) ELSE q, e)
    ELSE RoundToDouble(Halve(q), e + 1, IsOdd(q), sticky \/ half)

\* parseInt(s, 10) of a digit string: the Number nearest to its value
ParseInt(s) == RoundToDouble(Canon(ToDigits(s)), 0, FALSE, FALSE)

\* Number::toString prints at most this many digits without an exponent
MaxPlainDigits == 21

\* v cut to its first k digits, rounded down or up
Shortened(v, k, up) ==
    LET prefix == SubSeq(v, 1, k) IN
    (IF up THEN AddOne(prefix) ELSE prefix) \o Zeros(Len(v) - k)

RoundTrips(c, v) == RoundToDouble(c, 0, FALSE, FALSE) = v

\* The fewest significant digits, k or more, of a decimal that reads back
\* as v; all the digits of v do.
RECURSIVE FewestDigits(_, _)
FewestDigits(v, k) ==
    IF \/ RoundTrips(Shortened(v, k, FALSE), v)
       \/ RoundTrips(Shortened(v, k, TRUE), v)
    THEN k
    ELSE FewestDigits(v, k + 1)

\* The decimal with the fewest significant digits that reads back as v, the
\* one nearest to v when two have that few.
ShortestDigits(v) ==
    LET k == FewestDigits(v, 1)
        lo == Shortened(v, k, FALSE)
        hi == Shortened(v, k, TRUE)
        rest == IF k = Len(v) THEN <<0>> ELSE Canon(SubSeq(v, k + 1, Len(v)))
    IN  IF ~RoundTrips(hi, v) THEN lo
        ELSE IF ~RoundTrips(lo, v) THEN hi
        ELSE IF Less(<<1>> \o Zeros(Len(v) - k), Double(rest)) THEN hi
        ELSE lo

RECURSIVE DropZeros(_)
DropZeros(d) ==
    IF Len(d) > 1 /\ d[Len(d)] = 0 THEN DropZeros(SubSeq(d, 1, Len(d) - 1))
    ELSE d

\* the digits of a small integer
RECURSIVE SmallDigits(_)
SmallDigits(n) ==
    IF n < 10 THEN <<n>> ELSE Append(SmallDigits(n \div 10), n % 10)

\* String(v) of a Number holding a non-negative integer: its digits, or from
\* 10^21 on the significant digits with a decimal point and an exponent.
NumToString(v) ==
    IF Less(v, TwoTo53) THEN ToChars(v)
    ELSE LET c == ShortestDigits(v)
             sig == ToChars(DropZeros(c))
         IN  IF Len(c) <= MaxPlainDigits THEN ToChars(c)
             ELSE (IF Len(sig) = 1 THEN sig
                   ELSE <<sig[1], ".">> \o Tail(sig))
                      \o <<"e", "+">> \o ToChars(SmallDigits(Len(c) - 1))

\* s.padStart(width, '0')
RECURSIVE PadStart(_, _)
PadStart(s, width) ==
    IF Len(s) >= width THEN s ELSE PadStart(<<"0">> \o s, width)

BaseUrl == "https://humphreys.camarathon.net/MarathonWeb/FA/Activities/Assets/AssetMain.aspx?FormAction=Edit&AssetNo="
UrlSuffix == "&SortGrid=AssetNo&ItemFilterID=170851"

\* Mutant of generateAssetUrl: the digit test is not anchored, so a string
\* that starts with digits passes and parseInt reads its leading digits.
generateAssetUrlLenient(assetTagString) ==
    IF assetTagString = <<>> THEN NullUrl
    ELSE LET trimmedTag == Trim(assetTagString)
             isLead(i) == \A j \in 1..i : trimmedTag[j] \in Digits
             lead == Cardinality({i \in 1..Len(trimmedTag) : isLead(i)})
         IN
         IF lead = 0 THEN NullUrl
         ELSE LET numericValue == ParseInt(SubSeq(trimmedTag, 1, lead))
                  normalizedForPadding == NumToString(numericValue)
                  paddedTag == PadStart(normalizedForPadding, PadWidth)
              IN  <<BaseUrl>> \o paddedTag \o <<UrlSuffix>>

\* generateAssetUrl of a string: NullUrl stands for null; a URL is the
\* template's prefix, the characters of the padded number and the suffix.
generateAssetUrl(assetTagString) ==
    IF assetTagString = <<>> THEN NullUrl
    ELSE LET trimmedTag == Trim(assetTagString) IN
         IF trimmedTag = <<>> \/ ~IsDigitString(trimmedTag) THEN NullUrl
         ELSE LET numericValue == ParseInt(trimmedTag)
                  normalizedForPadding == NumToString(numericValue)
                  paddedTag == PadStart(normalizedForPadding, PadWidth)
              IN  <<BaseUrl>> \o paddedTag \o <<UrlSuffix>>

\* Mutant of NormalizeTag: a digit string is stored as the decimal rendering
\* of its value.
NormalizeTagNumeric(assetTagFromAI) ==
    LET cleaned == Trim(RemoveQuotes(Trim(assetTagFromAI))) IN
    IF IsDigitString(cleaned) THEN NumToString(ParseInt(cleaned)) ELSE cleaned

\* potentialAssetTag: the model's output trimmed, every single and double
\* quote deleted, trimmed again.
NormalizeTag(assetTagFromAI) == Trim(RemoveQuotes(Trim(assetTagFromAI)))

\* ------------------------------------------------------- tokens and protect
\* A bearer credential as the server sees it: missing, one of the literal
\* strings "null" / "undefined", or a JWT that is forged, expired or good.
Tokens ==
    [kind : {"absent", "null", "undefined", "invalid", "expired"}, id : {None}]
        \cup [kind : {"valid"}, id : Users]

\* The Authorization header: none, or "Bearer <token>".
Headers == [scheme : {"none"}, token : {[kind |-> "absent", id |-> None]}]
               \cup [scheme : {"bearer"}, token : Tokens]

\* Mutant of JwtVerify: the expiry of the token is not looked at.
JwtVerifyIgnoreExpiry(token, secretSet) ==
    IF ~secretSet \/ token.kind \in {"absent", "null", "undefined", "invalid"}
    THEN [ok |-> FALSE, err |-> "JsonWebTokenError", id |-> None]
    ELSE [ok |-> TRUE, err |-> None,
          id |-> IF token.kind = "expired" THEN "u1" ELSE token.id]

\* jwt.verify(token, secret): the decoded payload, or the name of the error.
JwtVerify(token, secretSet) ==
    IF ~secretSet \/ token.kind \in {"absent", "null", "undefined", "invalid"}
    THEN [ok |-> FALSE, err |-> "JsonWebTokenError", id |-> None]
    ELSE IF token.kind = "expired"
    THEN [ok |-> FALSE, err |-> "TokenExpiredError", id |-> None]
    ELSE [ok |-> TRUE, err |-> None, id |-> token.id]

\* Mutant of ProtectSync: the token of the header is decoded, not verified.
ProtectSyncUnverified(header, secretSet) ==
    IF header.scheme # "bearer"
    THEN [status |-> 401, id |-> None]
    ELSE IF header.token.kind \in {"absent", "null", "undefined"}
    THEN [status |-> 401, id |-> None]
    ELSE [status |-> 0,
          id |-> IF header.token.kind = "valid" THEN header.token.id ELSE "u1"]

\* protect, up to its await of User.findById: a 401, or the decoded id.
ProtectSync(header, secretSet) ==
    IF header.scheme # "bearer"
    THEN [status |-> 401, id |-> None]
    ELSE IF header.token.kind \in {"absent", "null", "undefined"}
    THEN [status |-> 401, id |-> None]
    ELSE LET decoded == JwtVerify(header.token, secretSet) IN
         IF decoded.ok THEN [status |-> 0, id |-> decoded.id]
         ELSE [status |-> 401, id |-> None]

\* protect, after User.findById settled: next() or a 401.
LookupResults == {"found", "missing", "throws"}
ProtectResume(result) == IF result = "found" THEN 0 ELSE 401

\* ------------------------------------------------------------ batch: state
VARIABLES
    jwtSecretSet,       \* process.env.JWT_SECRET is set
    bpc,                \* where the POST /extract-text request stands
    bHeader,            \* its Authorization header
    bDecodedId,         \* decoded.id held by protect across its await
    reqUser,            \* req.user
    nFiles,             \* req.files.length
    roomNumber,         \* req.body.roomNumber
    idx,                \* the file the loop is at (1-based)
    allExtractedTexts,
    hadError,
    pendingDoc,         \* docToInsert while insertOne is awaited
    bResp,              \* the response sent
    db,                 \* the asset_tags collection, in insertion order
    aiCalls,            \* capability calls made, per file
    aiLog,              \* what each capability call settled with, per file
    insertLog,          \* what insertOne settled with, per file
    errLog,             \* files whose iteration ended in the outer catch
    broadcastCalls      \* records handed to broadcastNewTag by the pipeline

batchVars ==
    <<bpc, bHeader, bDecodedId, reqUser, nFiles, roomNumber, idx,
      allExtractedTexts, hadError, pendingDoc, bResp, db, aiCalls, aiLog,
      insertLog, errLog, broadcastCalls>>

\* What the capability can answer with: strings the model may return.
RawOutputs ==
    { <<>>, <<" ">>, <<"7">>, <<"0", "7">>, <<" ", "7", " ">>,
      <<"\"", "7", "\"">>, <<"a">>, <<"7", "a">> }

\* How openai.chat.completions.create settles: it throws, or the content of
\* the first choice is missing, a string, or something that is no string.
AiResults ==
    [kind : {"throw", "null", "nonstring"}, text : {<<>>}]
        \cup [kind : {"text"}, text : RawOutputs]

\* req.body.roomNumber as multer leaves it: absent, a string, or an array
\* (the field sent twice).
RoomNumbers ==
    [kind : {"absent", "array"}, text : {<<>>}]
        \cup [kind : {"string"}, text : {<<>>, <<" ">>, <<" ", "B", "1">>}]

NoDoc == [assetTag |-> <<>>, assetUrl |-> NullUrl, file |-> 0,
          userId |-> None, userEmail |-> None, roomNumber |-> <<>>]
NoResp == [status |-> 0, hasTexts |-> FALSE, texts |-> <<>>]
NoUser == [id |-> None, email |-> None]
\* the user document User.findById returns for an id
UserDoc(u) == [id |-> u, email |-> IF u = "u1" THEN "u1@example" ELSE "u2@example"]

BatchInit ==
    /\ bpc = "idle"
    /\ bHeader = [scheme |-> "none", token |-> [kind |-> "absent", id |-> None]]
    /\ bDecodedId = None
    /\ reqUser = NoUser
    /\ nFiles = 0
    /\ roomNumber = [kind |-> "absent", text |-> <<>>]
    /\ idx = 0
    /\ allExtractedTexts = <<>>
    /\ hadError = FALSE
    /\ pendingDoc = NoDoc
    /\ bResp = NoResp
    /\ db = <<>>
    /\ aiCalls = [f \in 1..MaxFiles |-> 0]
    /\ aiLog = <<>>
    /\ insertLog = [f \in 1..MaxFiles |-> "none"]
    /\ errLog = {}
    /\ broadcastCalls = <<>>

\* ---------------------------------------------------------- batch: actions
AllEmpty(texts) == \A i \in 1..Len(texts) : texts[i] = <<>>

\* Mutant of BatchResponse: any error fails the batch, whatever was extracted.
BatchResponseAnyError(texts, had) ==
    IF had
    THEN [status |-> 500, hasTexts |-> TRUE, texts |-> texts]
    ELSE [status |-> 200, hasTexts |-> TRUE, texts |-> texts]

\* The aggregate failure policy and the response that ends the request.
BatchResponse(texts, had) ==
    IF had /\ AllEmpty(texts)
    THEN [status |-> 500, hasTexts |-> TRUE, texts |-> texts]
    ELSE [status |-> 200, hasTexts |-> TRUE, texts |-> texts]

\* The end of one iteration of the for loop: the next file's capability
\* call is started, or the loop is over and the response is sent.
NextFile(texts, had) ==
    /\ allExtractedTexts' = texts
    /\ hadError' = had
    /\ pendingDoc' = NoDoc
    /\ IF idx < nFiles
       THEN /\ idx' = idx + 1
            /\ aiCalls' = [aiCalls EXCEPT ![idx + 1] = @ + 1]
            /\ bpc' = "awaitAI"
            /\ bResp' = bResp
       ELSE /\ idx' = idx
            /\ aiCalls' = aiCalls
            /\ bpc' = "done"
            /\ bResp' = BatchResponse(texts, had)

\* The request arrives; protect runs up to its await of User.findById.
BatchArrive(header, n, room) ==
    /\ bpc = "idle"
    /\ bHeader' = header
    /\ nFiles' = n
    /\ roomNumber' = room
    /\ LET p == ProtectSync(header, jwtSecretSet) IN
       IF p.status = 0
       THEN /\ bpc' = "findUser"
            /\ bDecodedId' = p.id
            /\ bResp' = bResp
       ELSE /\ bpc' = "done"
            /\ bDecodedId' = None
            /\ bResp' = [status |-> p.status, hasTexts |-> FALSE, texts |-> <<>>]
    /\ UNCHANGED <<jwtSecretSet, reqUser, idx, allExtractedTexts, hadError,
                   pendingDoc, db, aiCalls, aiLog, insertLog, errLog,
                   broadcastCalls>>

\* Mutant of NoFilesUploaded: the empty-input guard is missing.
NoFilesUploadedUnchecked(n) == FALSE

\* !req.files?.length
NoFilesUploaded(n) == n = 0

\* User.findById settles. A user found: protect calls next(), multer fills
\* req.files and req.body, and the handler runs up to its first await.
BatchUserLookup(result) ==
    /\ bpc = "findUser"
    /\ IF ProtectResume(result) # 0
       THEN /\ bpc' = "done"
            /\ bResp' = [status |-> 401, hasTexts |-> FALSE, texts |-> <<>>]
            /\ UNCHANGED <<reqUser, idx, aiCalls>>
       ELSE /\ reqUser' = UserDoc(bDecodedId)
            /\ IF NoFilesUploaded(nFiles)
               THEN /\ bpc' = "done"
                    /\ bResp' = [status |-> 400, hasTexts |-> FALSE, texts |-> <<>>]
                    /\ UNCHANGED <<idx, aiCalls>>
               ELSE /\ bpc' = "awaitAI"
                    /\ idx' = 1
                    /\ aiCalls' = [aiCalls EXCEPT ![1] = @ + 1]
                    /\ bResp' = bResp
    /\ UNCHANGED <<jwtSecretSet, bHeader, bDecodedId, nFiles, roomNumber,
                   allExtractedTexts, hadError, pendingDoc, db, aiLog,
                   insertLog, errLog, broadcastCalls>>

\* The capability call of file idx settles; the iteration runs on to the
\* await of insertOne, or to its end.
AiSettles(result) ==
    /\ bpc = "awaitAI"
    /\ aiLog' = Append(aiLog, result)
    /\ IF result.kind \in {"throw", "nonstring"}
       THEN \* the call threw, or .trim() of a non-string did: the outer catch
            /\ errLog' = errLog \cup {idx}
            /\ NextFile(Append(allExtractedTexts, <<>>), TRUE)
       ELSE LET assetTagFromAI == result.text
                pushed == Append(allExtractedTexts, Trim(assetTagFromAI))
                potentialAssetTag == NormalizeTag(assetTagFromAI)
                assetUrl == generateAssetUrl(potentialAssetTag)
            IN
            IF roomNumber.kind = "array"
            THEN \* req.body.roomNumber.trim is not a function: the outer catch
                 /\ errLog' = errLog \cup {idx}
                 /\ NextFile(Append(pushed, <<>>), TRUE)
            ELSE LET roomNumberFromBody ==
                         IF roomNumber.kind = "string" /\ roomNumber.text # <<>>
                         THEN Trim(roomNumber.text) ELSE <<>>
                 IN
                 /\ errLog' = errLog
                 /\ IF potentialAssetTag # <<>> /\ assetUrl # NullUrl
                    THEN /\ pendingDoc' =
                              [assetTag |-> potentialAssetTag,
                               assetUrl |-> assetUrl,
                               file |-> idx,
                               userId |-> reqUser.id,
                               userEmail |-> reqUser.email,
                               roomNumber |-> roomNumberFromBody]
                         /\ bpc' = "awaitInsert"
                         /\ allExtractedTexts' = pushed
                         /\ UNCHANGED <<hadError, idx, aiCalls, bResp>>
                    ELSE NextFile(pushed, hadError)
    /\ UNCHANGED <<jwtSecretSet, bHeader, bDecodedId, reqUser, nFiles,
                   roomNumber, db, insertLog, broadcastCalls>>

\* Mutant of InsertSettles: no inner try/catch, so a failed insert lands in
\* the outer catch, which pushes an empty text and sets the error flag.
InsertSettlesPropagates(ok) ==
    /\ bpc = "awaitInsert"
    /\ db' = IF ok THEN Append(db, pendingDoc) ELSE db
    /\ insertLog' = [insertLog EXCEPT ![idx] = IF ok THEN "ok" ELSE "fail"]
    /\ IF ok THEN NextFile(allExtractedTexts, hadError)
       ELSE NextFile(Append(allExtractedTexts, <<>>), TRUE)
    /\ UNCHANGED <<jwtSecretSet, bHeader, bDecodedId, reqUser, nFiles,
                   roomNumber, aiLog, errLog, broadcastCalls>>

\* insertOne settles: the record is in the collection, or the inner catch
\* logs the error; either way the loop goes on.
\* Mutant of InsertSettles: the record is broadcast once the insert has
\* settled, whether it succeeded or not.
InsertSettlesBroadcasts(ok) ==
    /\ bpc = "awaitInsert"
    /\ db' = IF ok THEN Append(db, pendingDoc) ELSE db
    /\ insertLog' = [insertLog EXCEPT ![idx] = IF ok THEN "ok" ELSE "fail"]
    /\ broadcastCalls' = Append(broadcastCalls, pendingDoc)
    /\ NextFile(allExtractedTexts, hadError)
    /\ UNCHANGED <<jwtSecretSet, bHeader, bDecodedId, reqUser, nFiles,
                   roomNumber, aiLog, errLog>>

InsertSettles(ok) ==
    /\ bpc = "awaitInsert"
    /\ db' = IF ok THEN Append(db, pendingDoc) ELSE db
    /\ insertLog' = [insertLog EXCEPT ![idx] = IF ok THEN "ok" ELSE "fail"]
    /\ NextFile(allExtractedTexts, hadError)
    /\ UNCHANGED <<jwtSecretSet, bHeader, bDecodedId, reqUser, nFiles,
                   roomNumber, aiLog, errLog, broadcastCalls>>

BatchNext ==
    \/ \E header \in Headers, n \in 0..MaxFiles, room \in RoomNumbers :
          BatchArrive(header, n, room)
    \/ \E result \in LookupResults : BatchUserLookup(result)
    \/ \E result \in AiResults : AiSettles(result)
    \/ \E ok \in BOOLEAN : InsertSettles(ok)

\* ----------------------------------------------------------- stream: state
Conns == 1..MaxConns
Keys == Users \cup {AllKey}

VARIABLES
    nConns,             \* GET /stream requests that arrived; each has one res
    cpc,                \* where each request stands
    cBy,                \* who answered it: protect or the stream handler
    cHeader,            \* its Authorization header
    cToken,             \* req.query.token
    cShowAll,           \* req.query.showAllUsers === 'true'
    cStatus,            \* status written to res (0: nothing yet)
    cOpen,              \* the transport has not closed yet
    cHook,              \* req.on('close', ...) was called
    cKey,               \* connectionKey captured by the close hook
    cEvents,            \* events written to res, in order
    cAdds,              \* times res was added to a set of the registry
    sseConnections,     \* Map: key -> Set of res, in insertion order
    nBroadcasts,        \* calls of broadcastNewTag so far
    lastBroadcast,      \* what the latest call of broadcastNewTag did
    lastClose           \* what the latest run of a close hook did

streamVars ==
    <<nConns, cpc, cBy, cHeader, cToken, cShowAll, cStatus, cOpen, cHook,
      cKey, cEvents, cAdds, sseConnections, nBroadcasts, lastBroadcast,
      lastClose>>

\* ------------------------------------------- two batch requests: state
\* Two POST /extract-text requests that passed protect, in one process: the
\* handler's locals exist once per request, the collection once.
Reqs == {1, 2}

VARIABLES
    ppc,                \* where each request stands
    pUser,              \* req.user of each
    pFiles,             \* req.files.length of each
    pRoom,              \* req.body.roomNumber of each
    pIdx,               \* the file each loop is at
    pTexts,             \* allExtractedTexts of each
    pHad,               \* hadError of each
    pPending,           \* docToInsert of each while insertOne is awaited
    pResp,              \* the response of each
    pLog,               \* what the capability calls of each settled with
    pdb                 \* the asset_tags collection; req: the inserting request

pairVars ==
    <<ppc, pUser, pFiles, pRoom, pIdx, pTexts, pHad, pPending, pResp, pLog,
      pdb>>

\* Settlements of the capability call tried with two requests.
PairResults ==
    { [kind |-> "throw", text |-> <<>>],
      [kind |-> "text", text |-> <<"7">>],
      [kind |-> "text", text |-> <<"a">>] }
PairRooms == [kind : {"absent", "array"}, text : {<<>>}]

PairInit ==
    /\ ppc = [r \in Reqs |-> "idle"]
    /\ pUser = [r \in Reqs |-> NoUser]
    /\ pFiles = [r \in Reqs |-> 0]
    /\ pRoom = [r \in Reqs |-> [kind |-> "absent", text |-> <<>>]]
    /\ pIdx = [r \in Reqs |-> 0]
    /\ pTexts = [r \in Reqs |-> <<>>]
    /\ pHad = [r \in Reqs |-> FALSE]
    /\ pPending = [r \in Reqs |-> NoDoc]
    /\ pResp = [r \in Reqs |-> NoResp]
    /\ pLog = [r \in Reqs |-> <<>>]
    /\ pdb = <<>>

\* ----------------------------------------- two batch requests: actions
\* The end of one iteration of request r's loop.
PairNextFile(r, texts, had) ==
    /\ pTexts' = [pTexts EXCEPT ![r] = texts]
    /\ pHad' = [pHad EXCEPT ![r] = had]
    /\ pPending' = [pPending EXCEPT ![r] = NoDoc]
    /\ IF pIdx[r] < pFiles[r]
       THEN /\ pIdx' = [pIdx EXCEPT ![r] = @ + 1]
            /\ ppc' = [ppc EXCEPT ![r] = "awaitAI"]
            /\ pResp' = pResp
       ELSE /\ pIdx' = pIdx
            /\ ppc' = [ppc EXCEPT ![r] = "done"]
            /\ pResp' = [pResp EXCEPT ![r] = BatchResponse(texts, had)]

\* Request r, of user u, reaches the handler, which runs to its first await.
PairArrive(r, u, n, room) ==
    /\ ppc[r] = "idle"
    /\ pUser' = [pUser EXCEPT ![r] = UserDoc(u)]
    /\ pFiles' = [pFiles EXCEPT ![r] = n]
    /\ pRoom' = [pRoom EXCEPT ![r] = room]
    /\ IF NoFilesUploaded(n)
       THEN /\ ppc' = [ppc EXCEPT ![r] = "done"]
            /\ pResp' = [pResp EXCEPT ![r] =
                            [status |-> 400, hasTexts |-> FALSE, texts |-> <<>>]]
            /\ pIdx' = pIdx
       ELSE /\ ppc' = [ppc EXCEPT ![r] = "awaitAI"]
            /\ pIdx' = [pIdx EXCEPT ![r] = 1]
            /\ pResp' = pResp
    /\ UNCHANGED <<pTexts, pHad, pPending, pLog, pdb>>

\* Mutant of DocToInsert: the requesting user is kept in one place for the
\* process, where the request that arrived last has put its own.
DocToInsertLastUser(r, tag, url) ==
    LET arrived == {q \in Reqs : ppc[q] # "idle"}
        last == CHOOSE q \in arrived : \A p \in arrived : p <= q
    IN  [assetTag |-> tag, assetUrl |-> url, file |-> pIdx[r],
         userId |-> pUser[last].id, userEmail |-> pUser[last].email,
         roomNumber |-> <<>>, req |-> r]

\* docToInsert of request r
DocToInsert(r, tag, url) ==
    [assetTag |-> tag, assetUrl |-> url, file |-> pIdx[r],
     userId |-> pUser[r].id, userEmail |-> pUser[r].email,
     roomNumber |-> <<>>, req |-> r]

\* The capability call of request r settles.
PairAiSettles(r, result) ==
    /\ ppc[r] = "awaitAI"
    /\ pLog' = [pLog EXCEPT ![r] = Append(@, result)]
    /\ IF result.kind = "throw"
       THEN PairNextFile(r, Append(pTexts[r], <<>>), TRUE)
       ELSE LET assetTagFromAI == result.text
                pushed == Append(pTexts[r], Trim(assetTagFromAI))
                potentialAssetTag == NormalizeTag(assetTagFromAI)
                assetUrl == generateAssetUrl(potentialAssetTag)
            IN
            IF pRoom[r].kind = "array"
            THEN PairNextFile(r, Append(pushed, <<>>), TRUE)
            ELSE IF potentialAssetTag # <<>> /\ assetUrl # NullUrl
            THEN /\ pPending' = [pPending EXCEPT ![r] =
                                    DocToInsert(r, potentialAssetTag, assetUrl)]
                 /\ ppc' = [ppc EXCEPT ![r] = "awaitInsert"]
                 /\ pTexts' = [pTexts EXCEPT ![r] = pushed]
                 /\ UNCHANGED <<pHad, pIdx, pResp>>
            ELSE PairNextFile(r, pushed, pHad[r])
    /\ UNCHANGED <<pUser, pFiles, pRoom, pdb>>

\* insertOne of request r settles.
PairInsertSettles(r, ok) ==
    /\ ppc[r] = "awaitInsert"
    /\ pdb' = IF ok THEN Append(pdb, pPending[r]) ELSE pdb
    /\ PairNextFile(r, pTexts[r], pHad[r])
    /\ UNCHANGED <<pUser, pFiles, pRoom, pLog>>

PairNext ==
    \/ \E r \in Reqs, u \in Users, n \in 0..MaxPairFiles, room \in PairRooms :
          PairArrive(r, u, n, room)
    \/ \E r \in Reqs, result \in PairResults : PairAiSettles(r, result)
    \/ \E r \in Reqs, ok \in BOOLEAN : PairInsertSettles(r, ok)

\* ------------------------------------------------------- URL builder: state
VARIABLES
    urlCur,             \* the latest call of generateAssetUrl: argument, result
    urlPrev             \* the call before it

urlVars == <<urlCur, urlPrev>>

vars == <<jwtSecretSet, batchVars, streamVars, urlVars, pairVars>>

\* The digits short tags are written with.
TagAlphabet == {"0", "1"}
ShortTags ==
    UNION {{AsSeq(f) : f \in [1..n -> TagAlphabet]} : n \in 1..MaxTagLen}
\* Twelve and thirteen digits, 2^53 + 1, 10^21.
LongTags ==
    { <<"9","9","9","9","9","9","9","9","9","9","9","9">>,
      <<"1","2","3","4","5","6","7","8","9","0","1","2","3">>,
      <<"9","0","0","7","1","9","9","2","5","4","7","4","0","9","9","3">>,
      <<"1","0","0","0","0","0","0","0","0","0","0",
        "0","0","0","0","0","0","0","0","0","0","0">> }
\* Strings the builder turns down.
OtherTags == {<<>>, <<" ">>, <<"7", "a">>}
UrlTags == ShortTags \cup LongTags \cup OtherTags

NoUrlCall == [tag |-> <<>>, url |-> NullUrl]
UrlInit ==
    /\ urlCur = NoUrlCall
    /\ urlPrev = NoUrlCall

\* One call of generateAssetUrl.
UrlBuild(assetTagString) ==
    /\ urlPrev' = urlCur
    /\ urlCur' = [tag |-> assetTagString,
                  url |-> generateAssetUrl(assetTagString)]

UrlNext == \E assetTagString \in UrlTags : UrlBuild(assetTagString)

\* The GET /stream requests tried: without a header or with a bad one (the
\* query token missing or good), and with a good header and every token.
StreamRequests ==
    LET absent == [kind |-> "absent", id |-> None]
        good == [scheme |-> "bearer", token |-> [kind |-> "valid", id |-> "u1"]]
    IN
    [header : {[scheme |-> "none", token |-> absent]},
     token : {absent, [kind |-> "valid", id |-> "u1"]},
     showAllUsers : {FALSE}]
    \cup
    [header : {[scheme |-> "bearer", token |-> [kind |-> "invalid", id |-> None]]},
     token : {[kind |-> "undefined", id |-> None]},
     showAllUsers : {FALSE}]
    \cup
    [header : {good}, token : {t \in Tokens : t.kind # "valid"},
     showAllUsers : {TRUE}]
    \cup
    [header : {good}, token : {t \in Tokens : t.kind = "valid"},
     showAllUsers : BOOLEAN]

SeqToSet(q) == {q[i] : i \in 1..Len(q)}
Has(reg, key) == key \in DOMAIN reg
Members(reg, key) == IF Has(reg, key) THEN SeqToSet(reg[key]) ELSE {}
Registered(reg) == UNION {Members(reg, k) : k \in DOMAIN reg}
Remove(q, c) == SelectSeq(q, LAMBDA x : x # c)
\* Set.prototype.add
SetAdd(q, c) == IF c \in SeqToSet(q) THEN q ELSE Append(q, c)
\* Map.prototype.set / delete
MapSet(reg, key, q) ==
    [k \in DOMAIN reg \cup {key} |-> IF k = key THEN q ELSE reg[k]]
MapDelete(reg, key) == [k \in DOMAIN reg \ {key} |-> reg[k]]

EmptyMap == [k \in {} |-> <<>>]

NoBroadcast ==
    [n |-> 0, owner |-> None, pre |-> EmptyMap, post |-> EmptyMap,
     calls |-> [c \in Conns |-> 0], delivered |-> [c \in Conns |-> 0],
     threw |-> {}, raised |-> FALSE]
NoClose ==
    [conn |-> 0, key |-> None, pre |-> EmptyMap, post |-> EmptyMap,
     raised |-> FALSE]

StreamInit ==
    /\ nConns = 0
    /\ cpc = [c \in Conns |-> "none"]
    /\ cBy = [c \in Conns |-> None]
    /\ cHeader = [c \in Conns |->
                    [scheme |-> "none", token |-> [kind |-> "absent", id |-> None]]]
    /\ cToken = [c \in Conns |-> [kind |-> "absent", id |-> None]]
    /\ cShowAll = [c \in Conns |-> FALSE]
    /\ cStatus = [c \in Conns |-> 0]
    /\ cOpen = [c \in Conns |-> FALSE]
    /\ cHook = [c \in Conns |-> FALSE]
    /\ cKey = [c \in Conns |-> None]
    /\ cEvents = [c \in Conns |-> <<>>]
    /\ cAdds = [c \in Conns |-> 0]
    /\ sseConnections = EmptyMap
    /\ nBroadcasts = 0
    /\ lastBroadcast = NoBroadcast
    /\ lastClose = NoClose

Init ==
    /\ jwtSecretSet \in BOOLEAN
    /\ BatchInit
    /\ StreamInit
    /\ UrlInit
    /\ PairInit

\* --------------------------------------------------------- stream: gateway
\* Mutant of StreamHandler: a request without a usable token is let in as
\* an anonymous all-users listener instead of being answered 401.
StreamHandlerAnonymous(token, showAllUsers, secretSet, connectedThrows) ==
    IF token.kind \in {"absent", "null", "undefined"}
    THEN [pc |-> "active", status |-> 200, register |-> TRUE,
          key |-> AllKey, events |-> <<"connected">>, hook |-> TRUE]
    ELSE LET decoded == JwtVerify(token, secretSet) IN
         IF ~decoded.ok
         THEN [pc |-> "rejected", status |-> 401, register |-> FALSE,
               key |-> None, events |-> <<>>, hook |-> FALSE]
         ELSE [pc |-> "active", status |-> 200, register |-> TRUE,
               key |-> IF showAllUsers THEN AllKey ELSE decoded.id,
               events |-> <<"connected">>, hook |-> TRUE]

\* Mutant of StreamHandler: res is put into the registry before the token
\* is verified, and stays there when the request is answered 401.
StreamHandlerRegistersFirst(token, showAllUsers, secretSet, connectedThrows) ==
    LET decoded == JwtVerify(token, secretSet) IN
    IF ~decoded.ok
    THEN [pc |-> "rejected", status |-> 401, register |-> TRUE,
          key |-> AllKey, events |-> <<>>, hook |-> FALSE]
    ELSE [pc |-> "active", status |-> 200, register |-> TRUE,
          key |-> IF showAllUsers THEN AllKey ELSE decoded.id,
          events |-> <<"connected">>, hook |-> TRUE]

\* The handler of GET /stream, which runs without an await: what it answers,
\* whether it adds res to the registry and under which key, what it writes
\* to res and whether it gets to install the close hook.
StreamHandler(token, showAllUsers, secretSet, connectedThrows) ==
    LET reject(st) ==
            [pc |-> "rejected", status |-> st, register |-> FALSE,
             key |-> None, events |-> <<>>, hook |-> FALSE]
    IN
    IF token.kind = "absent" THEN reject(401)
    ELSE IF token.kind \in {"null", "undefined"} THEN reject(401)
    ELSE IF ~secretSet THEN reject(500)
    ELSE LET decoded == JwtVerify(token, secretSet) IN
         IF ~decoded.ok THEN reject(401)
         ELSE LET userId == decoded.id
                  connectionKey == IF showAllUsers THEN AllKey ELSE userId
              IN
              IF connectedThrows
              THEN \* res.write throws, and so does res.status(500).json in
                   \* the catch, the headers being sent: no hook is installed
                   [pc |-> "failed", status |-> 200, register |-> TRUE,
                    key |-> connectionKey, events |-> <<>>, hook |-> FALSE]
              ELSE [pc |-> "active", status |-> 200, register |-> TRUE,
                    key |-> connectionKey, events |-> <<"connected">>,
                    hook |-> TRUE]

\* Mutant of Subscribe: res is also filed under the all-users key.
SubscribeAlsoAll(reg, key, c) ==
    LET withKey == IF Has(reg, key) THEN reg ELSE MapSet(reg, key, <<>>)
        own == MapSet(withKey, key, SetAdd(withKey[key], c))
        withAll == IF Has(own, AllKey) THEN own ELSE MapSet(own, AllKey, <<>>)
    IN  MapSet(withAll, AllKey, SetAdd(withAll[AllKey], c))

\* sseConnections after the handler's has / set / get(...).add(res)
Subscribe(reg, key, c) ==
    LET withKey == IF Has(reg, key) THEN reg ELSE MapSet(reg, key, <<>>)
    IN  MapSet(withKey, key, SetAdd(withKey[key], c))

\* Mutant of CloseRemoval: the key of a set emptied by the hook is kept.
CloseRemovalKeepsKey(reg, key, c) ==
    IF Has(reg, key)
    THEN [reg |-> MapSet(reg, key, Remove(reg[key], c)), raised |-> FALSE]
    ELSE [reg |-> reg, raised |-> FALSE]

\* Mutant of CloseRemoval: no has() guard, so get() of a key that is gone
\* is undefined and the hook raises.
CloseRemovalUnguarded(reg, key, c) ==
    IF Has(reg, key)
    THEN LET rest == Remove(reg[key], c) IN
         [reg |-> IF Len(rest) = 0 THEN MapDelete(reg, key)
                  ELSE MapSet(reg, key, rest),
          raised |-> FALSE]
    ELSE [reg |-> reg, raised |-> TRUE]

\* The close hook: sseConnections after it, and whether it raised.
CloseRemoval(reg, key, c) ==
    IF Has(reg, key)
    THEN LET rest == Remove(reg[key], c) IN
         [reg |-> IF Len(rest) = 0 THEN MapDelete(reg, key)
                  ELSE MapSet(reg, key, rest),
          raised |-> FALSE]
    ELSE [reg |-> reg, raised |-> FALSE]

\* The request arrives at app.use('/api/manage/tags', protectRoute, ...):
\* protect runs up to its await of User.findById.
StreamArrive(header, token, showAllUsers) ==
    /\ nConns < MaxConns
    /\ LET c == nConns + 1
           p == ProtectSync(header, jwtSecretSet)
       IN
       /\ nConns' = c
       /\ cHeader' = [cHeader EXCEPT ![c] = header]
       /\ cToken' = [cToken EXCEPT ![c] = token]
       /\ cShowAll' = [cShowAll EXCEPT ![c] = showAllUsers]
       /\ cOpen' = [cOpen EXCEPT ![c] = TRUE]
       /\ IF p.status = 0
          THEN /\ cpc' = [cpc EXCEPT ![c] = "findUser"]
               /\ UNCHANGED <<cBy, cStatus>>
          ELSE /\ cpc' = [cpc EXCEPT ![c] = "rejected"]
               /\ cBy' = [cBy EXCEPT ![c] = "protect"]
               /\ cStatus' = [cStatus EXCEPT ![c] = p.status]
    /\ UNCHANGED <<cHook, cKey, cEvents, cAdds, sseConnections, nBroadcasts,
                   lastBroadcast, lastClose>>

\* User.findById settles; a user found, protect calls next() and the
\* stream handler runs to its end.
StreamUserLookup(c, result, connectedThrows) ==
    /\ cpc[c] = "findUser"
    /\ IF ProtectResume(result) # 0
       THEN /\ cpc' = [cpc EXCEPT ![c] = "rejected"]
            /\ cBy' = [cBy EXCEPT ![c] = "protect"]
            /\ cStatus' = [cStatus EXCEPT ![c] = 401]
            /\ UNCHANGED <<cHook, cKey, cEvents, cAdds, sseConnections>>
       ELSE LET h == StreamHandler(cToken[c], cShowAll[c], jwtSecretSet,
                                   connectedThrows)
            IN
            /\ cpc' = [cpc EXCEPT ![c] = h.pc]
            /\ cBy' = [cBy EXCEPT ![c] = "stream"]
            /\ cStatus' = [cStatus EXCEPT ![c] = h.status]
            /\ cHook' = [cHook EXCEPT ![c] = h.hook]
            /\ cKey' = [cKey EXCEPT ![c] = h.key]
            /\ cEvents' = [cEvents EXCEPT ![c] = h.events]
            /\ sseConnections' =
                   IF h.register THEN Subscribe(sseConnections, h.key, c)
                   ELSE sseConnections
            /\ cAdds' = [cAdds EXCEPT ![c] = IF h.register THEN @ + 1 ELSE @]
    /\ UNCHANGED <<nConns, cHeader, cToken, cShowAll, cOpen, nBroadcasts,
                   lastBroadcast, lastClose>>

\* The transport of a request closes: 'close' is emitted once, and the hook
\* runs if it is installed by then.
Close(c) ==
    /\ cpc[c] \in {"findUser", "active", "failed"}
    /\ cOpen[c]
    /\ cOpen' = [cOpen EXCEPT ![c] = FALSE]
    /\ IF cHook[c]
       THEN LET r == CloseRemoval(sseConnections, cKey[c], c) IN
            /\ sseConnections' = r.reg
            /\ lastClose' = [conn |-> c, key |-> cKey[c],
                             pre |-> sseConnections, post |-> r.reg,
                             raised |-> r.raised]
       ELSE UNCHANGED <<sseConnections, lastClose>>
    /\ UNCHANGED <<nConns, cpc, cBy, cHeader, cToken, cShowAll, cStatus,
                   cHook, cKey, cEvents, cAdds, nBroadcasts, lastBroadcast>>

\* ------------------------------------------------------- stream: broadcast
Count(q, c) == Cardinality({i \in 1..Len(q) : q[i] = c})

\* Set.prototype.forEach over one scope's set, res.write in a try/catch:
\* a write that throws deletes res from the set and the loop goes on.
RECURSIVE Visit(_, _, _)
Visit(todo, failing, acc) ==
    IF todo = <<>> THEN acc
    ELSE LET res == Head(todo) IN
         IF res \in failing
         THEN Visit(Tail(todo), failing,
                    [acc EXCEPT !.calls = Append(@, res)])
         ELSE Visit(Tail(todo), failing,
                    [acc EXCEPT !.calls = Append(@, res),
                                !.members = Append(@, res),
                                !.delivered = Append(@, res)])

\* Mutant of ForEachWrite: res.write outside any try/catch, so the first
\* write that throws ends the loop and nothing is deleted.
RECURSIVE VisitNoCatch(_, _, _)
VisitNoCatch(todo, failing, acc) ==
    IF todo = <<>> THEN acc
    ELSE LET res == Head(todo) IN
         IF res \in failing
         THEN [acc EXCEPT !.calls = Append(@, res),
                          !.members = @ \o todo,
                          !.raised = TRUE]
         ELSE VisitNoCatch(Tail(todo), failing,
                           [acc EXCEPT !.calls = Append(@, res),
                                       !.members = Append(@, res),
                                       !.delivered = Append(@, res)])
ForEachWriteNoCatch(members, failing) ==
    VisitNoCatch(members, failing,
                 [members |-> <<>>, calls |-> <<>>, delivered |-> <<>>,
                  raised |-> FALSE])

\* Mutant of ForEachWrite: the loop walks a live list by position, so the
\* channel that follows a deleted one is passed over.
RECURSIVE VisitSkipping(_, _, _)
VisitSkipping(todo, failing, acc) ==
    IF todo = <<>> THEN acc
    ELSE LET res == Head(todo) IN
         IF res \in failing
         THEN IF Len(todo) >= 2
              THEN VisitSkipping(Tail(Tail(todo)), failing,
                                 [acc EXCEPT !.calls = Append(@, res),
                                             !.members = Append(@, todo[2])])
              ELSE [acc EXCEPT !.calls = Append(@, res)]
         ELSE VisitSkipping(Tail(todo), failing,
                            [acc EXCEPT !.calls = Append(@, res),
                                        !.members = Append(@, res),
                                        !.delivered = Append(@, res)])
ForEachWriteSkipping(members, failing) ==
    VisitSkipping(members, failing,
                  [members |-> <<>>, calls |-> <<>>, delivered |-> <<>>,
                   raised |-> FALSE])

ForEachWrite(members, failing) ==
    Visit(members, failing,
          [members |-> <<>>, calls |-> <<>>, delivered |-> <<>>,
           raised |-> FALSE])

\* Mutant of broadcastNewTag: the fan-out to the all-users set is missing.
broadcastNewTagOwnerOnly(reg, owner, failing) ==
    LET u == IF Has(reg, owner) THEN ForEachWrite(reg[owner], failing)
             ELSE ForEachWrite(<<>>, failing)
    IN  [reg |-> IF Has(reg, owner) THEN MapSet(reg, owner, u.members) ELSE reg,
         calls |-> [c \in Conns |-> Count(u.calls, c)],
         delivered |-> [c \in Conns |-> Count(u.delivered, c)],
         raised |-> u.raised]

\* broadcastNewTag(tag) with tag.userId = owner, the writes to the res in
\* failing throwing: the registry after it, the calls of res.write made and
\* the events written, and whether the call raised.
broadcastNewTag(reg, owner, failing) ==
    LET u == IF Has(reg, owner) THEN ForEachWrite(reg[owner], failing)
             ELSE ForEachWrite(<<>>, failing)
        reg1 == IF Has(reg, owner) THEN MapSet(reg, owner, u.members) ELSE reg
        stop == u.raised
        a == IF ~stop /\ Has(reg1, AllKey)
             THEN ForEachWrite(reg1[AllKey], failing)
             ELSE ForEachWrite(<<>>, failing)
        reg2 == IF ~stop /\ Has(reg1, AllKey)
                THEN MapSet(reg1, AllKey, a.members) ELSE reg1
    IN  [reg |-> reg2,
         calls |-> [c \in Conns |-> Count(u.calls \o a.calls, c)],
         delivered |-> [c \in Conns |-> Count(u.delivered \o a.delivered, c)],
         raised |-> u.raised \/ a.raised]

RECURSIVE Repeat(_, _)
Repeat(e, n) == IF n = 0 THEN <<>> ELSE <<e>> \o Repeat(e, n - 1)

\* A caller of router.broadcastNewTag hands it a record owned by owner.
Broadcast(owner, failing) ==
    /\ nBroadcasts < MaxBroadcasts
    /\ LET b == broadcastNewTag(sseConnections, owner, failing) IN
       /\ sseConnections' = b.reg
       /\ cEvents' = [c \in Conns |->
                        cEvents[c] \o Repeat("newTag", b.delivered[c])]
       /\ lastBroadcast' = [n |-> nBroadcasts + 1, owner |-> owner,
                            pre |-> sseConnections, post |-> b.reg,
                            calls |-> b.calls, delivered |-> b.delivered,
                            threw |-> {c \in failing : b.calls[c] > 0},
                            raised |-> b.raised]
    /\ nBroadcasts' = nBroadcasts + 1
    /\ UNCHANGED <<nConns, cpc, cBy, cHeader, cToken, cShowAll, cStatus,
                   cOpen, cHook, cKey, cAdds, lastClose>>

StreamNext ==
    \/ \E r \in StreamRequests :
          StreamArrive(r.header, r.token, r.showAllUsers)
    \/ \E c \in Conns, result \in LookupResults, connectedThrows \in BOOLEAN :
          StreamUserLookup(c, result, connectedThrows)
    \/ \E c \in Conns : Close(c)
    \/ \E owner \in Users, failing \in SUBSET Registered(sseConnections) :
          Broadcast(owner, failing)

\* ---------------------------------------------------------- specifications
\* The batch pipeline: one POST /extract-text request from arrival to answer.
Next ==
    BatchNext /\ UNCHANGED streamVars /\ UNCHANGED urlVars
        /\ UNCHANGED pairVars
Spec == Init /\ [][Next]_vars

\* The live-subscribe gateway, the registry and broadcastNewTag.
NextStream ==
    StreamNext /\ UNCHANGED batchVars /\ UNCHANGED jwtSecretSet
        /\ UNCHANGED urlVars /\ UNCHANGED pairVars
SpecStream == Init /\ [][NextStream]_vars

\* The URL builder alone, called with one tag after another.
NextUrl ==
    UrlNext /\ UNCHANGED batchVars /\ UNCHANGED streamVars
        /\ UNCHANGED jwtSecretSet /\ UNCHANGED pairVars
SpecUrl == Init /\ [][NextUrl]_vars

\* Two authenticated batch requests, interleaved at their awaits; protect
\* let them through, so the secret is configured.
InitPair == Init /\ jwtSecretSet
NextPair ==
    PairNext /\ UNCHANGED batchVars /\ UNCHANGED streamVars
        /\ UNCHANGED jwtSecretSet /\ UNCHANGED urlVars
SpecPair == InitPair /\ [][NextPair]_vars

\* ------------------------------------------------------------ batch claims
\* The handler of POST /extract-text ran (protect set req.user first).
HandlerRan == reqUser.id # None
\* The entry an image is owed: the trimmed output of its capability call,
\* or the empty string when the call failed.
Entry(result) ==
    IF result.kind \in {"throw", "nonstring"} THEN <<>> ELSE Trim(result.text)
CapabilityFailed(i) == aiLog[i].kind \in {"throw", "nonstring"}

\* C1: the texts array of the response (200 or 500) has exactly one entry
\* per image of the batch, entry i being the entry of image i, whichever
\* step of whichever image failed.
C1_TextsOnePerImage ==
    bResp.hasTexts =>
        /\ Len(bResp.texts) = nFiles
        /\ \A i \in 1..nFiles : bResp.texts[i] = Entry(aiLog[i])

\* C2: when the capability call of image i throws, entry i is the empty
\* string, the batch is still answered with its texts, and every other
\* image had exactly one capability call and its own entry at its position.
C2_CapabilityFailureIsolated ==
    (bpc = "done" /\ HandlerRan /\ nFiles > 0
         /\ \E i \in 1..nFiles : aiLog[i].kind = "throw") =>
        /\ bResp.hasTexts
        /\ \A i \in 1..nFiles :
              /\ aiCalls[i] = 1
              /\ Len(bResp.texts) >= i
              /\ bResp.texts[i] = Entry(aiLog[i])

\* C3: the batch is answered 500 exactly when some image raised a hard
\* error and every entry of texts is empty; a lone image whose call throws
\* fails the batch, one non-empty entry makes it a success, and so does a
\* batch of empty texts without any error.
C3_FailurePolicy ==
    (bpc = "done" /\ bResp.hasTexts) =>
        /\ bResp.status \in {200, 500}
        /\ bResp.status = 500 <=> (errLog # {} /\ AllEmpty(bResp.texts))
        /\ (nFiles = 1 /\ aiLog[1].kind = "throw") => bResp.status = 500
        /\ (\E i \in 1..Len(bResp.texts) : bResp.texts[i] # <<>>)
               => bResp.status = 200
        /\ errLog = {} => bResp.status = 200
C3_Witness ==
    /\ bpc = "done"
    /\ nFiles = 1
    /\ aiLog = <<[kind |-> "throw", text |-> <<>>]>>
    /\ bResp.status = 500
    /\ bResp.texts = << <<>> >>

\* C4: a batch without images makes no capability call, inserts nothing
\* and broadcasts nothing, and the handler answers it 400.
C4_EmptyBatchRejected ==
    nFiles = 0 =>
        /\ \A f \in 1..MaxFiles : aiCalls[f] = 0
        /\ aiLog = <<>>
        /\ db = <<>>
        /\ broadcastCalls = <<>>
        /\ bpc \notin {"awaitAI", "awaitInsert"}
        /\ (bpc = "done" /\ HandlerRan) => bResp = [status |-> 400,
                                                   hasTexts |-> FALSE,
                                                   texts |-> <<>>]
C4_Witness ==
    /\ bpc = "done"
    /\ HandlerRan
    /\ nFiles = 0
    /\ bResp.status = 400

\* C5: a failed insert of image i's record is not propagated: entry i is
\* the extracted text, the error flag is set only by images whose
\* extraction failed, and every image of the batch is still processed.
C5_InsertFailureIsolated ==
    \A i \in 1..nFiles :
        insertLog[i] = "fail" =>
            /\ i \notin errLog
            /\ allExtractedTexts[i] = Trim(aiLog[i].text)
            /\ allExtractedTexts[i] # <<>>
            /\ hadError => \E j \in 1..Len(aiLog) : CapabilityFailed(j)
            /\ bpc = "done" =>
                  /\ \A j \in 1..nFiles : aiCalls[j] = 1
                  /\ bResp.hasTexts
                  /\ Len(bResp.texts) = nFiles
                  /\ bResp.texts[i] = Trim(aiLog[i].text)
                  /\ (\A j \in 1..nFiles : ~CapabilityFailed(j))
                         => bResp.status = 200
C5_Witness ==
    /\ bpc = "done"
    /\ nFiles = 3
    /\ insertLog[2] = "fail"
    /\ insertLog[3] = "ok"
    /\ CapabilityFailed(1)
    /\ bResp.status = 200
    /\ bResp.texts[2] # <<>>

\* C6: once the batch is answered, every record it persisted was handed to
\* broadcastNewTag exactly once.
C6_PersistedIsBroadcast ==
    bpc = "done" =>
        \A i \in 1..Len(db) : Count(broadcastCalls, db[i]) = 1

\* ----------------------------------------------------------- stream claims
\* The channels a broadcast of a record owned by owner is meant for.
InScope(reg, owner) == Members(reg, owner) \cup Members(reg, AllKey)

\* C7: a broadcast of a record owned by U calls res.write once on every
\* channel registered under U and once on every channel registered under
\* the all-users key, each write that does not throw being one newTag event
\* on that channel, and makes no write to any other channel.
C7_ScopedFanOut ==
    lastBroadcast.n > 0 =>
        \A c \in Conns :
            LET due == c \in InScope(lastBroadcast.pre, lastBroadcast.owner)
                got == lastBroadcast.delivered[c]
            IN
            /\ lastBroadcast.calls[c] = IF due THEN 1 ELSE 0
            /\ got = IF due /\ c \notin lastBroadcast.threw THEN 1 ELSE 0
            /\ nBroadcasts = 1 => Count(cEvents[c], "newTag") = got
C7_Witness ==
    /\ lastBroadcast.n > 0
    /\ \E c1, c2 \in Conns :
          /\ c1 \in Members(lastBroadcast.pre, lastBroadcast.owner)
          /\ lastBroadcast.delivered[c1] = 1
          /\ c2 \in Registered(lastBroadcast.pre)
          /\ c2 \notin InScope(lastBroadcast.pre, lastBroadcast.owner)
          /\ lastBroadcast.delivered[c2] = 0

\* C8: a write that throws during a broadcast is caught: the channel is
\* gone from the registry after the call, every other channel in scope got
\* its event and stays registered, and the call does not raise.
C8_WriteFailureIsolated ==
    lastBroadcast.n > 0 =>
        /\ ~lastBroadcast.raised
        /\ \A c \in lastBroadcast.threw :
              c \notin Registered(lastBroadcast.post)
        /\ \A c \in InScope(lastBroadcast.pre, lastBroadcast.owner)
                       \ lastBroadcast.threw :
              /\ lastBroadcast.delivered[c] = 1
              /\ \A k \in Keys :
                    c \in Members(lastBroadcast.post, k)
                        <=> c \in Members(lastBroadcast.pre, k)
C8_Witness ==
    /\ lastBroadcast.n > 0
    /\ Has(lastBroadcast.pre, lastBroadcast.owner)
    /\ Has(lastBroadcast.post, lastBroadcast.owner)
    /\ \E c1, c2 \in Conns :
          /\ lastBroadcast.pre[lastBroadcast.owner] = <<c1, c2>>
          /\ lastBroadcast.threw = {c1}
          /\ lastBroadcast.delivered[c2] = 1
          /\ lastBroadcast.post[lastBroadcast.owner] = <<c2>>

\* Every channel but c is registered under the same keys in both registries.
OthersKept(before, after, c) ==
    \A d \in Conns \ {c}, k \in Keys :
        d \in Members(after, k) <=> d \in Members(before, k)
\* A broadcast reaches the same channels other than c in both registries.
OthersDelivery(before, after, c) ==
    \A owner \in Users, d \in Conns \ {c} :
        broadcastNewTag(after, owner, {}).delivered[d]
            = broadcastNewTag(before, owner, {}).delivered[d]

\* C9: the removal a close hook makes is idempotent: run for any channel
\* and key, registered or not, and run again, it raises nothing, the second
\* run changes nothing, and the other channels' registrations and delivery
\* are untouched; so it is for every hook that ran.
C9_CloseIdempotent ==
    /\ \A k \in Keys, c \in Conns :
          LET r1 == CloseRemoval(sseConnections, k, c)
              r2 == CloseRemoval(r1.reg, k, c)
          IN  /\ ~r1.raised
              /\ ~r2.raised
              /\ r2.reg = r1.reg
              /\ c \notin Members(r1.reg, k)
              /\ OthersKept(sseConnections, r1.reg, c)
              /\ OthersDelivery(sseConnections, r1.reg, c)
    /\ lastClose.conn # 0 =>
          /\ ~lastClose.raised
          /\ OthersKept(lastClose.pre, lastClose.post, lastClose.conn)
C9_Witness ==
    /\ lastClose.conn # 0
    /\ lastClose.conn \notin Registered(lastClose.pre)
    /\ Registered(lastClose.post) # {}

\* C10: a GET /stream request whose query token is missing, "null" or
\* "undefined" is answered 401, is never in the registry, gets no event
\* and no stream.
C10_MissingTokenRejected ==
    \A c \in 1..nConns :
        cToken[c].kind \in {"absent", "null", "undefined"} =>
            /\ c \notin Registered(sseConnections)
            /\ cEvents[c] = <<>>
            /\ ~cHook[c]
            /\ cpc[c] \in {"findUser", "rejected"}
            /\ cpc[c] = "rejected" => cStatus[c] = 401
            /\ cpc[c] = "findUser" => cStatus[c] = 0
C10_Witness ==
    \E c \in 1..nConns :
        /\ cToken[c].kind = "undefined"
        /\ cBy[c] = "stream"
        /\ cStatus[c] = 401
        /\ lastBroadcast.n > 0
        /\ \E d \in Conns : lastBroadcast.delivered[d] = 1

\* C11: a GET /stream request with a good token in the query and no
\* Authorization header is not turned away: it is never answered 401.
C11_QueryTokenAccepted ==
    \A c \in 1..nConns :
        (/\ jwtSecretSet
         /\ cHeader[c].scheme = "none"
         /\ cToken[c].kind = "valid") => cStatus[c] # 401

\* C16: every channel that is or ever was in the registry belongs to a
\* request whose token jwt.verify accepted against a configured secret; a
\* request whose token fails verification, or that comes while no secret is
\* configured, gets no event-stream headers, no event and no registry entry.
C16_OnlyVerifiedRegistered ==
    \A c \in Conns :
        /\ (c \in Registered(sseConnections) \/ cAdds[c] > 0) =>
              /\ jwtSecretSet
              /\ cToken[c].kind = "valid"
              /\ cKey[c] \in {cToken[c].id, AllKey}
        /\ (cToken[c].kind # "valid" \/ ~jwtSecretSet) =>
              /\ cStatus[c] # 200
              /\ cEvents[c] = <<>>
              /\ cAdds[c] = 0
              /\ c \notin Registered(sseConnections)
C16_Witness ==
    \E c, d \in 1..nConns :
        /\ c \in Registered(sseConnections)
        /\ cStatus[c] = 200
        /\ cToken[d].kind = "expired"
        /\ cBy[d] = "stream"
        /\ cStatus[d] = 401

\* C17: a channel that was added to the registry had its "connected" event
\* written before.
C17_ConnectedBeforeRegistered ==
    \A c \in Conns :
        cAdds[c] > 0 => (cEvents[c] # <<>> /\ cEvents[c][1] = "connected")

\* C18: an accepted connection whose transport has closed is not in the
\* registry, whenever the close came.
C18_ClosedIsRemoved ==
    \A c \in Conns :
        (cpc[c] \in {"active", "failed"} /\ ~cOpen[c]) =>
            c \notin Registered(sseConnections)

\* The steps a connection may take: Pending to Authenticating or straight
\* to Rejected, Authenticating to Active (with or without its "connected"
\* event written) or to Rejected.
ConnEdges ==
    { <<"none", "findUser">>, <<"none", "rejected">>,
      <<"findUser", "active">>, <<"findUser", "failed">>,
      <<"findUser", "rejected">> }

\* C19: connections move along Pending, Authenticating, Active or Rejected,
\* Closed only; a rejected request stays rejected and is never in the
\* registry, a closed transport stays closed, and a channel is added to the
\* registry at most once, on leaving Authenticating, so that a channel
\* removed by its close hook or by a failed write is never added again.
C19_TerminalStates ==
    /\ [](\A c \in Conns :
             /\ cAdds[c] <= 1
             /\ cpc[c] = "rejected" =>
                   (cAdds[c] = 0 /\ c \notin Registered(sseConnections)))
    /\ [][\A c \in Conns :
             /\ cpc[c] # cpc'[c] => <<cpc[c], cpc'[c]>> \in ConnEdges
             /\ (cpc[c] # "none" /\ ~cOpen[c]) => ~cOpen'[c]
             /\ (c \in Registered(sseConnections')
                   /\ c \notin Registered(sseConnections)) =>
                   (cAdds[c] = 0 /\ cpc[c] = "findUser")]_vars
C19_Witness ==
    \E c, d \in 1..nConns :
        /\ cAdds[c] = 1
        /\ c \notin Registered(sseConnections)
        /\ cpc[d] = "rejected"
        /\ cBy[d] = "stream"
        /\ lastBroadcast.n > 0

\* C20: a channel is in the set of at most one key, once: the id of the
\* principal its token was verified for, or the all-users key when the
\* request asked for all users.
C20_OneScopePerChannel ==
    \A c \in Conns :
        /\ Cardinality({k \in DOMAIN sseConnections :
                           c \in Members(sseConnections, k)}) <= 1
        /\ \A k \in DOMAIN sseConnections :
              /\ k \in Keys
              /\ c \in Members(sseConnections, k) =>
                    /\ k = IF cShowAll[c] THEN AllKey ELSE cToken[c].id
                    /\ Count(sseConnections[k], c) = 1
C20_Witness ==
    \E c, d \in 1..nConns :
        /\ ~cShowAll[c]
        /\ c \in Members(sseConnections, cToken[c].id)
        /\ cShowAll[d]
        /\ d \in Members(sseConnections, AllKey)

\* The cleaning of a raw model output, from its description: the characters
\* that are no quotes, from the first to the last that is no whitespace.
CleanRef(raw) ==
    LET unquoted == SelectSeq(raw, LAMBDA ch : ch \notin Quotes)
        solid == {i \in 1..Len(unquoted) : unquoted[i] \notin Whitespace}
    IN  IF solid = {} THEN <<>>
        ELSE SubSeq(unquoted,
                    CHOOSE i \in solid : \A j \in solid : i <= j,
                    CHOOSE i \in solid : \A j \in solid : i >= j)
OnlyDigits(s) == s # <<>> /\ \A i \in 1..Len(s) : s[i] \in Digits
\* Image i's capability call returned, with a content or with none.
Answered(i) == aiLog[i].kind \in {"null", "text"}

\* C12: when the cleaned output of image i is a non-empty digit string, the
\* record prepared and the record stored for image i carry exactly that
\* string as assetTag, leading zeros included, and normalizing the clean
\* string again gives it back.
C12_DigitTagStoredVerbatim ==
    \A i \in 1..Len(aiLog) :
        (Answered(i) /\ OnlyDigits(CleanRef(aiLog[i].text))) =>
            LET tag == CleanRef(aiLog[i].text) IN
            /\ NormalizeTag(aiLog[i].text) = tag
            /\ NormalizeTag(tag) = tag
            /\ (bpc = "awaitInsert" /\ idx = i) => pendingDoc.assetTag = tag
            /\ \A k \in 1..Len(db) : db[k].file = i => db[k].assetTag = tag
            /\ insertLog[i] = "ok" =>
                  \E k \in 1..Len(db) : db[k].file = i /\ db[k].assetTag = tag
C12_Witness ==
    \E k, m \in 1..Len(db) :
        /\ db[k].assetTag = <<"0", "7">>
        /\ aiLog[db[k].file].text = <<"0", "7">>
        /\ db[m].assetTag = <<"7">>
        /\ aiLog[db[m].file].text = <<"\"", "7", "\"">>

\* C13: when the cleaned output of image i is empty or holds a character
\* that is no digit, the URL builder returns null for it, no record is
\* prepared or inserted for image i, and the rejection raises nothing: it
\* puts no image in the error log and does not set the failure flag.
C13_RejectedTagIsNoError ==
    /\ \A i \in 1..Len(aiLog) :
          (Answered(i) /\ ~OnlyDigits(CleanRef(aiLog[i].text))) =>
              /\ generateAssetUrl(CleanRef(aiLog[i].text)) = NullUrl
              /\ generateAssetUrl(NormalizeTag(aiLog[i].text)) = NullUrl
              /\ insertLog[i] = "none"
              /\ ~(bpc = "awaitInsert" /\ idx = i)
              /\ \A k \in 1..Len(db) : db[k].file # i
              /\ roomNumber.kind # "array" => i \notin errLog
    /\ (roomNumber.kind # "array" /\ \A i \in 1..Len(aiLog) : Answered(i))
           => ~hadError
C13_Witness ==
    /\ bpc = "done"
    /\ Len(aiLog) = 3
    /\ aiLog[1].text = <<"7", "a">>
    /\ aiLog[2].kind = "null"
    /\ aiLog[3].text = <<"\"", "7", "\"">>
    /\ insertLog[3] = "ok"
    /\ Len(db) = 1
    /\ ~hadError
    /\ bResp.status = 200

\* C15: every record handed to broadcastNewTag by the pipeline is a record
\* of the collection whose insert succeeded; nothing is broadcast for an
\* image whose insert failed, whose tag was rejected or whose capability
\* call failed.
C15_NoBroadcastWithoutInsert ==
    \A k \in 1..Len(broadcastCalls) :
        LET r == broadcastCalls[k] IN
        /\ \E m \in 1..Len(db) : db[m] = r
        /\ r.file \in 1..Len(aiLog)
        /\ insertLog[r.file] = "ok"
        /\ Answered(r.file)
        /\ OnlyDigits(CleanRef(aiLog[r.file].text))
C15_Witness ==
    /\ bpc = "done"
    /\ Len(aiLog) = 3
    /\ insertLog[1] = "fail"
    /\ CapabilityFailed(2)
    /\ aiLog[3].text = <<"a">>
    /\ broadcastCalls = <<>>

\* A digit string without its leading zeros, and the AssetNo field its
\* value is owed: that decimal, filled from the left with zeros to PadWidth.
StripLeadingZeros(tag) ==
    LET solid == {i \in 1..Len(tag) : tag[i] # "0"} IN
    IF solid = {} THEN <<"0">>
    ELSE SubSeq(tag, CHOOSE i \in solid : \A j \in solid : i <= j, Len(tag))
RefAssetNo(tag) ==
    LET decimal == StripLeadingZeros(tag) IN
    IF Len(decimal) >= PadWidth THEN decimal
    ELSE [i \in 1..(PadWidth - Len(decimal)) |-> "0"] \o decimal

\* C14: the URL built for a digit string is the template around the decimal
\* of the tag's value, without leading zeros, padded with zeros to 12
\* characters; two digit strings that differ only in leading zeros get the
\* same URL, and the same tag gets the same URL each time.
C14_UrlIsValueFunction ==
    /\ OnlyDigits(urlCur.tag) =>
          urlCur.url = <<BaseUrl>> \o RefAssetNo(urlCur.tag) \o <<UrlSuffix>>
    /\ (/\ OnlyDigits(urlCur.tag)
        /\ OnlyDigits(urlPrev.tag)
        /\ StripLeadingZeros(urlCur.tag) = StripLeadingZeros(urlPrev.tag))
           => urlCur.url = urlPrev.url
    /\ urlCur.tag = urlPrev.tag => urlCur.url = urlPrev.url

\* C21: a run of the close hook of channel c under key k that finds c the
\* only channel of k's set leaves the registry without the key k; one that
\* finds other channels in the set leaves k with those channels, in their
\* order; every other key keeps its set.
C21_LastChannelRemovesKey ==
    lastClose.conn # 0 =>
        LET c == lastClose.conn
            k == lastClose.key
            pre == lastClose.pre
            post == lastClose.post
            others == Members(pre, k) \ {c}
        IN
        /\ (c \in Members(pre, k) /\ others = {}) => ~Has(post, k)
        /\ (Has(pre, k) /\ others # {}) =>
              /\ Has(post, k)
              /\ Members(post, k) = others
              /\ post[k] = SelectSeq(pre[k], LAMBDA x : x \in others)
        /\ \A j \in (DOMAIN pre \cup DOMAIN post) \ {k} :
              /\ Has(pre, j)
              /\ Has(post, j)
              /\ post[j] = pre[j]
C21_Witness ==
    /\ lastClose.conn # 0
    /\ Members(lastClose.pre, lastClose.key) = {lastClose.conn}
    /\ ~Has(lastClose.post, lastClose.key)
    /\ \E j \in DOMAIN lastClose.post : Members(lastClose.post, j) # {}

\* A registry in good order: known keys, no channel twice in a set, no
\* channel in two sets.
WellFormed(reg) ==
    /\ DOMAIN reg \subseteq Keys
    /\ \A k \in DOMAIN reg : \A c \in Conns : Count(reg[k], c) <= 1
    /\ \A k, j \in DOMAIN reg :
          k # j => Members(reg, k) \cap Members(reg, j) = {}

\* C22: a call of broadcastNewTag does not raise; a channel that is in a
\* set of the fan-out's scope before and after the call had res.write
\* called once and got one event; a channel that left its set during the
\* call is one whose write threw, tried once; the sets of the scope keep
\* their other channels in order, the other sets are untouched, and the
\* registry is in good order before and after.
C22_FanOutConsistent ==
    lastBroadcast.n > 0 =>
        LET pre == lastBroadcast.pre
            post == lastBroadcast.post
            scope == {lastBroadcast.owner, AllKey}
        IN
        /\ ~lastBroadcast.raised
        /\ WellFormed(pre)
        /\ WellFormed(post)
        /\ WellFormed(sseConnections)
        /\ DOMAIN post = DOMAIN pre
        /\ \A k \in DOMAIN pre :
              /\ k \notin scope => post[k] = pre[k]
              /\ k \in scope =>
                    /\ post[k] = SelectSeq(pre[k],
                                   LAMBDA x : x \notin lastBroadcast.threw)
                    /\ \A c \in Members(pre, k) :
                          /\ lastBroadcast.calls[c] = 1
                          /\ c \in Members(post, k) =>
                                lastBroadcast.delivered[c] = 1
                          /\ c \notin Members(post, k) =>
                                /\ c \in lastBroadcast.threw
                                /\ lastBroadcast.delivered[c] = 0
C22_Witness ==
    /\ lastBroadcast.n > 0
    /\ \E k \in DOMAIN lastBroadcast.pre : \E c, d \in Conns :
          /\ lastBroadcast.pre[k] = <<c, d>>
          /\ lastBroadcast.post[k] = <<d>>
          /\ c \in lastBroadcast.threw
          /\ lastBroadcast.delivered[d] = 1

\* C27: every key of the registry maps to a set with at least one channel.
C27_NoEmptyScope ==
    \A k \in DOMAIN sseConnections : sseConnections[k] # <<>>

\* C28: the first event written on a channel is its "connected" event; no
\* newTag event comes before it.
C28_ConnectedFirst ==
    \A c \in Conns :
        cEvents[c] # <<>> => cEvents[c][1] = "connected"

\* C29: every channel in the registry has its close hook installed, also
\* after a stream set-up that failed.
C29_RegisteredHasHook ==
    \A c \in Registered(sseConnections) : cHook[c]

\* The AssetNo field of a URL the builder returned.
AssetNo(url) == SubSeq(url, 2, Len(url) - 1)

\* C26: for a digit string of more than 12 significant digits, beyond the
\* safe-integer range included, the builder returns a URL whose AssetNo
\* field is made of decimal digits only and is the tag's value digit for
\* digit.
C26_LargeTagKeepsValue ==
    (/\ OnlyDigits(urlCur.tag)
     /\ Len(StripLeadingZeros(urlCur.tag)) > PadWidth) =>
        /\ urlCur.url # NullUrl
        /\ OnlyDigits(AssetNo(urlCur.url))
        /\ AssetNo(urlCur.url) = StripLeadingZeros(urlCur.tag)

\* C24: the entry of the response for an image whose capability call
\* returned is the trimmed raw output of that call, whether the text made
\* a tag or not and whether the insert succeeded or not.
C24_RawTextReturned ==
    bResp.hasTexts =>
        \A i \in 1..Len(aiLog) :
            Answered(i) =>
                /\ i <= Len(bResp.texts)
                /\ bResp.texts[i] = Trim(aiLog[i].text)

\* An insert was attempted for image i.
Attempted(i) ==
    insertLog[i] # "none" \/ (bpc = "awaitInsert" /\ idx = i)

\* C25: an insert is attempted for an image exactly when its cleaned text
\* is a non-empty digit string; the collection holds at most one record per
\* image, owned by the requesting user and carrying the URL built from its
\* tag; and a step of the pipeline leaves the collection as it is or
\* appends one record to it.
C25_AppendOnly ==
    /\ [](\A i \in 1..Len(aiLog) :
             /\ Attempted(i) <=>
                   (Answered(i) /\ OnlyDigits(CleanRef(aiLog[i].text)))
             /\ Cardinality({k \in 1..Len(db) : db[k].file = i}) <= 1
             /\ \A k \in 1..Len(db) :
                   db[k].file = i =>
                       /\ insertLog[i] = "ok"
                       /\ db[k].userId = reqUser.id
                       /\ db[k].userEmail = reqUser.email
                       /\ db[k].assetTag = CleanRef(aiLog[i].text)
                       /\ db[k].assetUrl = generateAssetUrl(db[k].assetTag))
    /\ [][\/ db' = db
          \/ Len(db') = Len(db) + 1 /\ SubSeq(db', 1, Len(db)) = db]_vars

\* C30: while protect has not set req.user, no capability call was made and
\* no insert attempted, and a request ended there was answered 401; the
\* handler runs only for a request whose header carries a token that
\* verifies against the configured secret, as the user of that token.
C30_NoWorkWithoutAuth ==
    /\ ~HandlerRan =>
          /\ \A f \in 1..MaxFiles : aiCalls[f] = 0 /\ insertLog[f] = "none"
          /\ aiLog = <<>>
          /\ db = <<>>
          /\ bpc \in {"idle", "findUser", "done"}
          /\ bpc = "done" => (bResp.status = 401 /\ ~bResp.hasTexts)
    /\ HandlerRan =>
          /\ jwtSecretSet
          /\ bHeader.scheme = "bearer"
          /\ bHeader.token.kind = "valid"
          /\ reqUser.id = bHeader.token.id
    /\ bpc \in {"awaitAI", "awaitInsert"} => HandlerRan
C30_Witness ==
    /\ bpc = "done"
    /\ bHeader.token.kind = "valid"
    /\ bDecodedId # None
    /\ ~HandlerRan
    /\ nFiles = MaxFiles
    /\ bResp.status = 401
    /\ \A f \in 1..MaxFiles : aiCalls[f] = 0

\* What a request alone is owed for the settlements log of its capability
\* calls and its roomNumber field: its texts and its failure flag.
RECURSIVE ExpectedTexts(_, _)
ExpectedTexts(log, room) ==
    IF log = <<>> THEN <<>>
    ELSE LET result == log[Len(log)]
             before == ExpectedTexts(SubSeq(log, 1, Len(log) - 1), room)
         IN  IF result.kind = "throw" THEN Append(before, <<>>)
             ELSE IF room.kind = "array"
             THEN before \o <<Trim(result.text), <<>>>>
             ELSE Append(before, Trim(result.text))
ExpectedHad(log, room) ==
    \E i \in 1..Len(log) : log[i].kind = "throw" \/ room.kind = "array"
\* The locals of request r.
Locals(r) ==
    <<ppc[r], pUser[r], pFiles[r], pRoom[r], pIdx[r], pTexts[r], pHad[r],
      pPending[r], pResp[r], pLog[r]>>

\* C23: with two requests interleaved at their awaits, the texts, the
\* failure flag and the response of each are what its own settlements and
\* its own roomNumber field give, every record of the collection carries
\* the user of the request that inserted it and the tag of that request's
\* image, and a step changes the locals of one request at most.
C23_RequestsIndependent ==
    /\ [](\A r \in Reqs :
             /\ pTexts[r] = ExpectedTexts(pLog[r], pRoom[r])
             /\ pHad[r] = ExpectedHad(pLog[r], pRoom[r])
             /\ pResp[r].hasTexts =>
                   /\ Len(pLog[r]) = pFiles[r]
                   /\ pResp[r] = BatchResponse(ExpectedTexts(pLog[r], pRoom[r]),
                                               ExpectedHad(pLog[r], pRoom[r]))
             /\ \A k \in 1..Len(pdb) :
                   pdb[k].req = r =>
                       /\ pdb[k].userId = pUser[r].id
                       /\ pdb[k].userEmail = pUser[r].email
                       /\ pdb[k].file \in 1..Len(pLog[r])
                       /\ pdb[k].assetTag = NormalizeTag(pLog[r][pdb[k].file].text))
    /\ [][\A r, q \in Reqs :
             r # q => (Locals(r)' = Locals(r) \/ Locals(q)' = Locals(q))]_vars
C23_Witness ==
    /\ \A r \in Reqs : ppc[r] = "done"
    /\ pUser[1].id # pUser[2].id
    /\ Len(pdb) = 3
    /\ pdb[1].req = 1
    /\ pdb[2].req = 2
    /\ pdb[3].req = 1
    /\ pHad[2]
    /\ ~pHad[1]
    /\ pResp[1].status = 200
    /\ pResp[2].status = 200

====
